---- MODULE Spec2Model ----
(***************************************************************************)
(* hbd2tex.py: conversion of a hierarchical box diagram into LaTeX.        *)
(*                                                                         *)
(* A line of input is a sequence of lexemes; the lexeme " " is a run of    *)
(* white space, every other lexeme is a run of non-space characters.  The  *)
(* regular expressions of the program are operators on such sequences.     *)
(* Output text is a sequence of string pieces: one piece per string        *)
(* literal or computed string of the source, empty pieces dropped.         *)
(***************************************************************************)
EXTENDS Integers, Sequences, FiniteSets, TLC

(* ---------------------------------------------------------------- bounds *)

\* longest input file, in lines
MaxLines == 3

\* longest input file of the shorthand comparison, in lines
MaxSugarLines == 2

(* ---------------------------------------------------------------- inputs *)

L_empty   == << >>
L_white   == << " " >>
L_comment == << "#", "note" >>
L_close   == << "}" >>
L_hbox    == << "hbox", " ", "{" >>
L_vbox    == << "vbox", " ", "{" >>
L_pbox    == << "pbox", " ", "{" >>
L_hboxred == << "hbox", " ", "[color=red]", " ", "{" >>
L_hl      == << "hl", " ", "A" >>
L_hlblue  == << "hl", " ", "[color=blue]", " ", "A" >>
L_vl      == << "vl", " ", "B" >>
L_hspace  == << "hspace", " ", "1em" >>
L_short   == << "hbox", " ", "A" >>
L_bad     == << "xyz", " ", "abc" >>
L_shortred  == << "hbox", " ", "[color=red]", " ", "A" >>
L_shortstar == << "hbox", " ", "[adornlr=star]", " ", "A" >>

Lines ==
    { L_empty, L_white, L_comment, L_close, L_hbox, L_vbox, L_pbox, L_hboxred,
      L_hl, L_hlblue, L_vl, L_hspace, L_short, L_bad }

SugarLines ==
    { L_empty, L_comment, L_close, L_vbox, L_pbox, L_hboxred, L_hlblue, L_vl,
      L_hspace, L_short, L_shortred, L_shortstar, L_bad }

Streams(S, n) == UNION { [1..k -> S] : k \in 0..n }

\* the file read after the first one, when the command line names two
Trailer == << L_vl >>

(* ----------------------------------------------------- regular expressions *)

RECURSIVE lstrip(_)
lstrip(line) ==
    IF line # << >> /\ Head(line) = " " THEN lstrip(Tail(line)) ELSE line

RECURSIVE rstrip(_)
rstrip(line) ==
    IF line # << >> /\ line[Len(line)] = " "
    THEN rstrip(SubSeq(line, 1, Len(line) - 1))
    ELSE line

RE_EMPTY_without_comment(line) == lstrip(line) = << >>

\* RE_EMPTY.match(line): \s*(#.*)?$
RE_EMPTY(line) ==
    LET r == lstrip(line) IN r = << >> \/ Head(r) = "#"

\* RE_BLOCK_END.match(line): \s*\}
RE_BLOCK_END(line) ==
    LET r == lstrip(line) IN r # << >> /\ Head(r) = "}"

\* re.sub(r'#.*', '', line)
RECURSIVE sub_comment(_)
sub_comment(line) ==
    IF line = << >> \/ Head(line) = "#" THEN << >>
    ELSE << Head(line) >> \o sub_comment(Tail(line))

\* group(1) of RE_COLOR on one lexeme, "" when the lexeme is no color annotation
RE_COLOR(w) ==
    IF w = "[color=red]" THEN "red"
    ELSE IF w = "[color=blue]" THEN "blue"
    ELSE ""

\* group(1) of RE_ADORN_LR on one lexeme, "" when it is no adornment annotation
RE_ADORN_LR(w) ==
    IF w = "[adornlr=star]" THEN "star" ELSE ""

\* <keyword>\s*\{ after leading white space: RE_HOR_BOX, RE_VER_BOX, RE_PLAIN_BOX
RE_BOX(keyword, line) ==
    LET r == lstrip(line) IN
    /\ r # << >>
    /\ Head(r) = keyword
    /\ LET s == lstrip(Tail(r)) IN s # << >> /\ Head(s) = "{"

RE_HOR_BOX(line)   == RE_BOX("hbox", line)
RE_VER_BOX(line)   == RE_BOX("vbox", line)
RE_PLAIN_BOX(line) == RE_BOX("pbox", line)

\* \s*<keyword>\s+(.*): RE_HOR_LABEL, RE_VER_LABEL, RE_HOR_SPACE
RE_LABEL(keyword, line) ==
    LET r == lstrip(line) IN
    IF r # << >> /\ Head(r) = keyword /\ Tail(r) # << >> /\ Head(Tail(r)) = " "
    THEN [matched |-> TRUE, group |-> lstrip(Tail(r))]
    ELSE [matched |-> FALSE, group |-> << >>]

RE_HOR_LABEL(line) == RE_LABEL("hl", line)
RE_VER_LABEL(line) == RE_LABEL("vl", line)
RE_HOR_SPACE(line) == RE_LABEL("hspace", line)

\* RE_HOR_BOX_LABEL.match(line): \s*hbox\s+([^{\s].*)
RE_HOR_BOX_LABEL(line) ==
    LET m == RE_LABEL("hbox", line) IN
    IF m.matched /\ m.group # << >> /\ Head(m.group) # "{"
    THEN m
    ELSE [matched |-> FALSE, group |-> << >>]

(* ------------------------------------------------------------- the reader *)

\* style_re.search(w).group(1) on one lexeme, for the compiled expression named
style_group(style_re, w) ==
    IF style_re = "RE_COLOR" THEN RE_COLOR(w) ELSE RE_ADORN_LR(w)

\* process_style: the line without the annotations (style_re.sub) and the
\* value of the first one (style_re.search), '' when there is none
process_style(line, style_re) ==
    LET found == SelectSeq(line, LAMBDA w : style_group(style_re, w) # "") IN
    IF found # << >>
    THEN [line  |-> SelectSeq(line, LAMBDA w : style_group(style_re, w) = ""),
          style |-> style_group(style_re, Head(found))]
    ELSE [line |-> line, style |-> ""]

(* ------------------------------------------------------------------ state *)

VARIABLES
    args_separate,   \* args.separate_boxes
    files,           \* args.file: the lines of each file named on the command line
    fileno,          \* position of main's loop in args.file
    cursor,          \* lines the iterator file_input has yielded
    boxes,           \* the Box objects, by identity (creation order)
    roots,           \* the root box of each file begun
    stack,           \* the box of each active process_box call, innermost last
    pc,              \* "start", "loop", "process_box", "print", "done", "exit"
    stdout,          \* the texts printed, one per print call
    exit_msg         \* the argument of sys.exit

vars ==
    << args_separate, files, fileno, cursor, boxes, roots, stack, pc, stdout,
       exit_msg >>

(* --------------------------------------------------------------- elements *)

\* a color is set: `if color`, false of None and of ''
Truthy(color) == color \notin { "None", "" }

NewLine == [type |-> "NewLine"]

HorizontalLabel(container, label, color) ==
    [type |-> "HorizontalLabel", label |-> label, container |-> container,
     color |-> color]

HorizontalSpace(container, space) ==
    [type |-> "HorizontalSpace", space |-> space, container |-> container]

VerticalLabel_wrong_ordinal(container, label, color) ==
    [type |-> "VerticalLabel", label |-> label, container |-> container,
     ordinal |-> Len(boxes[container].contents) + 1, color |-> color]

VerticalLabel(container, label, color) ==
    [type |-> "VerticalLabel", label |-> label, container |-> container,
     ordinal |-> boxes[container].ncol, color |-> color]

\* a Box held in another's contents: the reference to the object
BoxRef(id) == [type |-> "Box", id |-> id]

Box_no_container(cls, container, color, separate) ==
    [cls |-> cls, contents |-> << >>, ncol |-> 1, container |-> 0,
     color |-> color, separate |-> separate]

\* Box.__init__, for the class cls; container 0 is None
Box(cls, container, color, separate) ==
    [cls |-> cls, contents |-> << >>, ncol |-> 1, container |-> container,
     color |-> color, separate |-> separate]

HorizontalBox(container, color) == Box("HorizontalBox", container, color, FALSE)
VerticalBox(container, color)   == Box("VerticalBox", container, color, FALSE)
PlainBox(container, color, separate) == Box("PlainBox", container, color, separate)

required_columns(e) == IF e.type = "VerticalLabel" THEN 1 ELSE 0

add_element_widening(bs, b, e) ==
    [bs EXCEPT ![b].contents = Append(@, e), ![b].ncol = @ + 1]

\* Box.add_element on the box b of the heap bs
add_element(bs, b, e) ==
    [bs EXCEPT ![b].contents = Append(@, e),
               ![b].ncol = @ + required_columns(e)]

(* ------------------------------------------------------------ process_line *)

sys_exit_ignored(line) == [op |-> "None"]

\* sys.exit('Syntax error in line: ' + line)
sys_exit(line) == [op |-> "exit", msg |-> << "Syntax error in line: " >> \o line]

\* '$\\' + adorn_lr + '$ ' and ' $\\' + adorn_lr + '$'
adorn_left(adorn_lr) ==
    IF adorn_lr # "" THEN << "$\\", adorn_lr, "$ " >> ELSE << >>
adorn_right(adorn_lr) ==
    IF adorn_lr # "" THEN << " $\\", adorn_lr, "$" >> ELSE << >>

\* the `hbox <text>` branch: a HorizontalBox holding one HorizontalLabel,
\* allocated at the end of the heap bs
hbox_label_uncolored(bs, container, label, color) ==
    LET id == Len(bs) + 1 IN
    add_element(Append(bs, HorizontalBox(container, color)), id,
                HorizontalLabel(id, label, ""))

hbox_label(bs, container, label, color) ==
    LET id == Len(bs) + 1 IN
    add_element(Append(bs, HorizontalBox(container, color)), id,
                HorizontalLabel(id, label, color))

\* process_line up to its result: what the line makes the caller do
\*   None: nothing;  element: add e;  process_box: recurse into a new box;
\*   hbox_label: add the box of the shorthand;  exit: abort the run
process_line(line0, container) ==
    LET line1 == rstrip(line0) IN
    IF line1 # << >> /\ RE_EMPTY(line1) THEN [op |-> "None"]
    ELSE
    LET line2 == sub_comment(line1) IN
    IF line2 = << >> THEN [op |-> "element", e |-> NewLine]
    ELSE
    LET c     == process_style(line2, "RE_COLOR")
        a     == process_style(c.line, "RE_ADORN_LR")
        line  == a.line
        color == c.style
        left  == adorn_left(a.style)
        right == adorn_right(a.style)
    IN
    IF RE_HOR_BOX(line)
    THEN [op |-> "process_box", box |-> HorizontalBox(container, color)]
    ELSE IF RE_VER_BOX(line)
    THEN [op |-> "process_box", box |-> VerticalBox(container, color)]
    ELSE IF RE_PLAIN_BOX(line)
    THEN [op |-> "process_box", box |-> PlainBox(container, color, FALSE)]
    ELSE IF RE_HOR_LABEL(line).matched
    THEN [op |-> "element",
          e |-> HorizontalLabel(container,
                                left \o RE_HOR_LABEL(line).group \o right, color)]
    ELSE IF RE_HOR_SPACE(line).matched
    THEN [op |-> "element",
          e |-> HorizontalSpace(container, RE_HOR_SPACE(line).group)]
    ELSE IF RE_HOR_BOX_LABEL(line).matched
    THEN [op |-> "hbox_label", color |-> color,
          label |-> left \o RE_HOR_BOX_LABEL(line).group \o right]
    ELSE IF RE_VER_LABEL(line).matched
    THEN [op |-> "element",
          e |-> VerticalLabel(container, RE_VER_LABEL(line).group, color)]
    ELSE sys_exit(line)

(* ----------------------------------------------------------- the renderer *)

\* a string as output text: '' adds nothing
Piece(s) == IF s = "" THEN << >> ELSE << s >>

\* seq * n, empty for n <= 0
RECURSIVE repeat(_, _)
repeat(seq, n) == IF n <= 0 THEN << >> ELSE seq \o repeat(seq, n - 1)

cell_color(color) ==
    IF Truthy(color) THEN << "\\cellcolor{", color, "}" >> ELSE << >>

\* Contained.top_container, of a box
RECURSIVE top_container(_)
top_container(b) ==
    IF boxes[b].container # 0 THEN top_container(boxes[b].container) ELSE b

\* Contained.separate_boxes, of a box or of an element contained in it
separate_boxes(b) == boxes[top_container(b)].separate

compose_repeat(b, element, separator, left, right) ==
    Piece(left) \o repeat(Piece(element) \o Piece(separator), boxes[b].ncol - 2)
                \o Piece(element) \o Piece(right)

vertical_border(b) ==
    IF boxes[b].cls = "PlainBox" THEN ""
    ELSE IF separate_boxes(b) /\ boxes[b].ncol > 1 THEN "||"
    ELSE "|"

top_horizontal_border(b) ==
    IF boxes[b].cls = "PlainBox" THEN << >>
    ELSE << "\\hline% top box border\n" >>

bottom_horizontal_border(b) ==
    IF boxes[b].cls = "PlainBox" THEN << >>
    ELSE (IF separate_boxes(b) /\ boxes[b].ncol > 1
          THEN << "\\hhline{" >> \o compose_repeat(b, ":=:", "b", "|b", "b|")
                                \o << "}% bottom box border\n" >>
          ELSE << "\\hline" >>)
         \o << "\\noalign{\\vskip 2mm}% bottom box border\n" >>

RECURSIVE vertical_adjustbox(_)
vertical_adjustbox(b) ==
    IF boxes[b].cls = "VerticalBox"
    THEN "\\adjustbox{angle=-90,margin=0 0.5em 0 0}"
    ELSE IF boxes[b].container # 0 THEN vertical_adjustbox(boxes[b].container)
    ELSE "\\adjustbox{angle=90,margin=0 0 0 0.5em}"

end_line(e) == IF e.type = "Box" THEN << "\\\\\n" >> ELSE << >>

NewLine_to_string == << "\\\\\n" >>

HorizontalLabel_to_string(e) ==
    << "\\multicolumn{", ToString(boxes[e.container].ncol - 1), "}{|c|}{" >>
    \o cell_color(e.color) \o e.label \o << "} \\\\\n" >>

HorizontalSpace_to_string(e) ==
    << "\\multicolumn{", ToString(boxes[e.container].ncol - 1),
       "}{c@{\\hspace{" >> \o e.space \o << "}}}{} \\\\\n" >>

VerticalLabel_to_string(e) ==
    LET c        == e.container
        is_last  == e.ordinal = boxes[c].ncol - 1
        is_first == e.ordinal = 1
    IN
    (IF e.ordinal = 1
     THEN IF separate_boxes(c)
          THEN << "\\hhline{" >> \o compose_repeat(c, "-", "||", "||", "||")
                                \o << "}% vl\n" >>
          ELSE << "\\hline% vl\n" >>
     ELSE << >>)
    \o << "\\multicolumn{1}{" >>
    \o (IF separate_boxes(c)
        THEN Piece(IF is_first THEN "||" ELSE "") \o << "c||}" >>
        ELSE << "|c" >> \o Piece(IF is_last THEN "|" ELSE "") \o << "}" >>)
    \o << "{", vertical_adjustbox(c) >>
    \o << "{" >> \o cell_color(e.color) \o e.label \o << "}}" >>
    \o (IF is_last THEN << "\\\\\n" >> ELSE << "&\n" >>)

RECURSIVE to_string(_), Box_to_string(_), contents_to_string(_)

\* the loop `for c in self.contents: r += c.to_string()`
contents_to_string(cs) ==
    IF cs = << >> THEN << >>
    ELSE to_string(Head(cs)) \o contents_to_string(Tail(cs))

\* Box.to_string up to the loop over the contents
Box_head(b) ==
    LET vb   == vertical_border(b)
        spec == IF separate_boxes(b)
                THEN compose_repeat(b, "l", "||", vb, vb)
                ELSE compose_repeat(b, "l", "", vb, vb)
    IN
    (IF Truthy(boxes[b].color)
     THEN << "\\colorbox{", boxes[b].color, "}{%\n" >>
     ELSE << "{" >>)
    \o << "\\begin{tabular}[t]{" >> \o spec \o << "}\n" >>
    \o top_horizontal_border(b)

\* Box.to_string after the loop over the contents
Box_tail(b) ==
    LET cs == boxes[b].contents IN
    (IF cs # << >> THEN end_line(cs[Len(cs)]) ELSE << >>)
    \o bottom_horizontal_border(b) \o << "\\end{tabular}}\\hspace{1em}" >>

\* Box.to_string, of the box b
Box_to_string(b) ==
    Box_head(b) \o contents_to_string(boxes[b].contents) \o Box_tail(b)

VerticalBox_to_string_unrotated(b) == Box_to_string(b)

\* VerticalBox.to_string
VerticalBox_to_string(b) ==
    << "\\rotatebox[origin=rt]{90}{\n" >> \o Box_to_string(b) \o << "}\n" >>

\* to_string of an element, by its class
to_string(e) ==
    IF e.type = "NewLine" THEN NewLine_to_string
    ELSE IF e.type = "HorizontalLabel" THEN HorizontalLabel_to_string(e)
    ELSE IF e.type = "HorizontalSpace" THEN HorizontalSpace_to_string(e)
    ELSE IF e.type = "VerticalLabel" THEN VerticalLabel_to_string(e)
    ELSE IF boxes[e.id].cls = "VerticalBox" THEN VerticalBox_to_string(e.id)
    ELSE Box_to_string(e.id)

(* ------------------------------------------------------------ the program *)

\* the command lines: one file, or that file and then the trailer
OneFile(S, n)  == { << f >> : f \in Streams(S, n) }
TwoFiles(S, n) == { << f, Trailer >> : f \in Streams(S, n) }

InitWith(fs) ==
    /\ args_separate \in BOOLEAN
    /\ files \in fs
    /\ fileno = 1
    /\ cursor = 0
    /\ boxes = << >>
    /\ roots = << >>
    /\ stack = << >>
    /\ pc = "start"
    /\ stdout = << >>
    /\ exit_msg = << >>

Init == InitWith(OneFile(Lines, MaxLines))

InitFiles == InitWith(TwoFiles(Lines, MaxLines))

\* prologue(args): the document header, then the opening of the document
Prologue ==
    /\ pc = "start"
    /\ stdout' = << << "\\documentclass{standalone}\n" >>,
                    << "\n\\begin{document}\n" >> >>
    /\ pc' = "loop"
    /\ UNCHANGED << args_separate, files, fileno, cursor, boxes, roots, stack,
                    exit_msg >>

\* process_file up to its call of process_box: the root box of the next file
ProcessFile ==
    /\ pc = "loop"
    /\ fileno <= Len(files)
    /\ boxes' = Append(boxes, PlainBox(0, "None", args_separate))
    /\ roots' = Append(roots, Len(boxes) + 1)
    /\ stack' = << Len(boxes) + 1 >>
    /\ cursor' = 0
    /\ pc' = "process_box"
    /\ UNCHANGED << args_separate, files, fileno, stdout, exit_msg >>

ReturnBox_only_nested ==
    IF Len(stack) = 1 /\ cursor < Len(files[fileno])
    THEN boxes' = boxes /\ stack' = stack /\ pc' = pc
    ELSE /\ stack' = SubSeq(stack, 1, Len(stack) - 1)
         /\ IF Len(stack) > 1
            THEN /\ boxes' = add_element(boxes, stack[Len(stack) - 1],
                                         BoxRef(stack[Len(stack)]))
                 /\ pc' = pc
            ELSE /\ boxes' = boxes
                 /\ pc' = "print"

\* `return box` of process_box: to process_line's caller, which adds the box
\* to its own, or to process_file
ReturnBox ==
    LET box == stack[Len(stack)] IN
    /\ stack' = SubSeq(stack, 1, Len(stack) - 1)
    /\ IF Len(stack) > 1
       THEN /\ boxes' = add_element(boxes, stack[Len(stack) - 1], BoxRef(box))
            /\ pc' = pc
       ELSE /\ boxes' = boxes
            /\ pc' = "print"

\* the line the loop of process_box reads next
AtLine == pc = "process_box" /\ cursor < Len(files[fileno])
Line == files[fileno][cursor + 1]
Current == stack[Len(stack)]

\* process_box: the line matches RE_BLOCK_END
BlockEnd ==
    /\ AtLine
    /\ RE_BLOCK_END(Line)
    /\ cursor' = cursor + 1
    /\ ReturnBox
    /\ UNCHANGED << args_separate, files, fileno, roots, stdout, exit_msg >>

\* process_box: the iterator is exhausted, the loop ends
EndOfInput ==
    /\ pc = "process_box"
    /\ cursor = Len(files[fileno])
    /\ ReturnBox
    /\ UNCHANGED << args_separate, files, fileno, cursor, roots, stdout,
                    exit_msg >>

\* process_box: process_line returns None
SkipLine ==
    /\ AtLine
    /\ ~RE_BLOCK_END(Line)
    /\ process_line(Line, Current).op = "None"
    /\ cursor' = cursor + 1
    /\ UNCHANGED << args_separate, files, fileno, boxes, roots, stack, pc,
                    stdout, exit_msg >>

\* process_box: process_line returns a NewLine, label or space
AddElement ==
    /\ AtLine
    /\ ~RE_BLOCK_END(Line)
    /\ process_line(Line, Current).op = "element"
    /\ cursor' = cursor + 1
    /\ boxes' = add_element(boxes, Current, process_line(Line, Current).e)
    /\ UNCHANGED << args_separate, files, fileno, roots, stack, pc, stdout,
                    exit_msg >>

\* process_box: process_line returns the box of an `hbox <text>` line
AddBoxLabel ==
    /\ AtLine
    /\ ~RE_BLOCK_END(Line)
    /\ process_line(Line, Current).op = "hbox_label"
    /\ cursor' = cursor + 1
    /\ LET r == process_line(Line, Current) IN
       boxes' = add_element(hbox_label(boxes, Current, r.label, r.color),
                            Current, BoxRef(Len(boxes) + 1))
    /\ UNCHANGED << args_separate, files, fileno, roots, stack, pc, stdout,
                    exit_msg >>

\* process_line calls process_box on a new box
OpenBox ==
    /\ AtLine
    /\ ~RE_BLOCK_END(Line)
    /\ process_line(Line, Current).op = "process_box"
    /\ cursor' = cursor + 1
    /\ boxes' = Append(boxes, process_line(Line, Current).box)
    /\ stack' = Append(stack, Len(boxes) + 1)
    /\ UNCHANGED << args_separate, files, fileno, roots, pc, stdout, exit_msg >>

\* process_line reaches sys.exit
SyntaxError ==
    /\ AtLine
    /\ ~RE_BLOCK_END(Line)
    /\ process_line(Line, Current).op = "exit"
    /\ cursor' = cursor + 1
    /\ exit_msg' = process_line(Line, Current).msg
    /\ pc' = "exit"
    /\ UNCHANGED << args_separate, files, fileno, boxes, roots, stack, stdout >>

\* process_file: print(box.to_string()), and main's loop moves on
PrintFile ==
    /\ pc = "print"
    /\ stdout' = Append(stdout, to_string(BoxRef(roots[fileno])))
    /\ fileno' = fileno + 1
    /\ pc' = "loop"
    /\ UNCHANGED << args_separate, files, cursor, boxes, roots, stack, exit_msg >>

\* epilogue(), after the last file
Epilogue ==
    /\ pc = "loop"
    /\ fileno > Len(files)
    /\ stdout' = Append(stdout, << "}\n\\end{document}\n" >>)
    /\ pc' = "done"
    /\ UNCHANGED << args_separate, files, fileno, cursor, boxes, roots, stack,
                    exit_msg >>

Next ==
    \/ Prologue
    \/ ProcessFile
    \/ BlockEnd
    \/ EndOfInput
    \/ SkipLine
    \/ AddElement
    \/ AddBoxLabel
    \/ OpenBox
    \/ SyntaxError
    \/ PrintFile
    \/ Epilogue

Spec == Init /\ [][Next]_vars

\* the runs over two files
SpecFiles == InitFiles /\ [][Next]_vars

(* ------------------------------------------- the input grammar, as stated *)

\* the line without comment, trailing white space and annotations
Stripped(line) ==
    process_style(process_style(sub_comment(rstrip(line)), "RE_COLOR").line,
                  "RE_ADORN_LR").line

\* blank once trailing white space and a # comment are stripped
IsBlank(line) == rstrip(sub_comment(line)) = << >>

\* empty or white space only
IsEmpty(line) == rstrip(line) = << >>

\* nothing but a comment, after optional white space
IsCommentOnly(line) == IsBlank(line) /\ ~IsEmpty(line)

IsClose(line) == RE_BLOCK_END(line)

IsOpen(line) ==
    /\ ~IsBlank(line)
    /\ ~IsClose(line)
    /\ \/ RE_HOR_BOX(Stripped(line))
       \/ RE_VER_BOX(Stripped(line))
       \/ RE_PLAIN_BOX(Stripped(line))

IsShorthand(line) ==
    ~IsBlank(line) /\ ~IsClose(line) /\ RE_HOR_BOX_LABEL(Stripped(line)).matched

IsLeaf(line, keyword) ==
    ~IsBlank(line) /\ ~IsClose(line) /\ RE_LABEL(keyword, Stripped(line)).matched

\* matches none of the directives
Unrecognized(line) ==
    /\ ~IsBlank(line)
    /\ ~IsClose(line)
    /\ ~IsOpen(line)
    /\ ~IsShorthand(line)
    /\ ~IsLeaf(line, "hl")
    /\ ~IsLeaf(line, "vl")
    /\ ~IsLeaf(line, "hspace")

\* the class of the element a line adds to its box, "" when it adds none
Yields(line) ==
    IF IsClose(line) \/ IsCommentOnly(line) \/ Unrecognized(line) THEN ""
    ELSE IF IsEmpty(line) THEN "NewLine"
    ELSE IF IsOpen(line) \/ IsShorthand(line) THEN "Box"
    ELSE IF IsLeaf(line, "hl") THEN "HorizontalLabel"
    ELSE IF IsLeaf(line, "hspace") THEN "HorizontalSpace"
    ELSE "VerticalLabel"

\* the directive of every line of the inputs
Directive ==
    [line \in Lines \cup SugarLines |->
        [close        |-> IsClose(line),
         open         |-> IsOpen(line),
         shorthand    |-> IsShorthand(line),
         unrecognized |-> Unrecognized(line),
         yields       |-> Yields(line)]]

\* a file as the directives of its lines
Describe(f) == [n \in 1..Len(f) |-> Directive[f[n]]]

\* the block-open lines among the first n of the described file d that no `}`
\* has closed yet, innermost last
RECURSIVE OpenLines(_, _)
OpenLines(d, n) ==
    IF n = 0 THEN << >>
    ELSE LET s == OpenLines(d, n - 1) IN
         IF d[n].close
         THEN IF s = << >> THEN s ELSE SubSeq(s, 1, Len(s) - 1)
         ELSE IF d[n].open THEN Append(s, n)
         ELSE s

\* line n closes a block when none is open
IsStrayClose(d, n) == d[n].close /\ OpenLines(d, n - 1) = << >>

\* every line is a directive and every open has its close, every close its open
WellFormed(d) ==
    /\ \A n \in 1..Len(d) : ~d[n].unrecognized /\ ~IsStrayClose(d, n)
    /\ OpenLines(d, Len(d)) = << >>

(* ------------------------------------------------- the objects of a file *)

\* the file being read or just read, and its root
File == files[fileno]
Root == roots[fileno]

\* the boxes of the k-th file: the heap from its root to the next root
BoxesOf(k) ==
    roots[k] .. (IF k < Len(roots) THEN roots[k + 1] - 1 ELSE Len(boxes))

\* the box made by line i of the file being read: the boxes are made in line order
BoxOfLine(d, i) ==
    Root + Cardinality({ j \in 1..i : d[j].open \/ d[j].shorthand })

\* the box that holds what line i adds
Enclosing(d, i) ==
    LET s == OpenLines(d, i - 1) IN
    IF s = << >> THEN Root ELSE BoxOfLine(d, s[Len(s)])

\* the element of line i is in its place: in the enclosing box (the one of
\* the innermost open block), after those of the earlier lines of that box,
\* of the right class, contained in that box
InPlace(d, into, i) ==
    LET b == into[i]
        k == Cardinality({ j \in 1..i : d[j].yields # "" /\ into[j] = b })
    IN
    /\ b \in DOMAIN boxes
    /\ k \in DOMAIN boxes[b].contents
    /\ LET e == boxes[b].contents[k] IN
       /\ e.type = d[i].yields
       /\ e.type = "Box" =>
            /\ e.id = BoxOfLine(d, i)
            /\ e.id \in DOMAIN boxes
            /\ boxes[e.id].container = b
       /\ e.type \in { "HorizontalLabel", "HorizontalSpace", "VerticalLabel" } =>
            e.container = b

\* the tree of the file being read is the one the first n lines describe, all
\* their blocks closed
TreeOfLines(d, n) ==
    LET into == [i \in 1..n |-> Enclosing(d, i)] IN
    /\ \A i \in 1..n : d[i].yields # "" => InPlace(d, into, i)
    /\ \A b \in BoxesOf(fileno) :
         /\ boxes[b].container = 0 <=> b = Root
         /\ \/ Len(boxes[b].contents) =
                 Cardinality({ j \in 1..n : d[j].yields # "" /\ into[j] = b })
            \/ /\ \E i \in 1..n : d[i].shorthand /\ b = BoxOfLine(d, i)
               /\ Len(boxes[b].contents) = 1
               /\ boxes[b].contents[1].type = "HorizontalLabel"
               /\ boxes[b].contents[1].container = b

\* the file has been read and process_file is about to render its tree
Rendering == pc = "print"

(* ----------------------------------------------------------------- claims *)

(* C1: a line that is read and matches none of the directives aborts the   *)
(* run at that line, at any nesting depth: the reader stops there with     *)
(* the diagnostic quoting the line, nothing has been printed for the file  *)
(* of that line (the output is the prologue and the earlier files' markup),*)
(* and nothing runs afterwards: no later line, later file or epilogue.     *)
C1_UnrecognizedLineAborts ==
    /\ pc = "exit" =>
         /\ cursor \in 1..Len(File)
         /\ Directive[File[cursor]].unrecognized
         /\ \A i \in 1..(cursor - 1) : ~Directive[File[i]].unrecognized
         /\ exit_msg = << "Syntax error in line: " >> \o Stripped(File[cursor])
         /\ Len(stdout) = 2 + (fileno - 1)
         /\ Len(roots) = fileno
         /\ ~ENABLED Next
    /\ pc \in { "process_box", "print" } =>
         \A i \in 1..cursor : ~Directive[File[i]].unrecognized

C1_Witness ==
    /\ pc = "exit"
    /\ Len(stack) > 1
    /\ cursor < Len(File)
    /\ fileno < Len(files)

(* C3: the ncol of every Box, at every moment, is 1 plus the number of     *)
(* VerticalLabels directly in its contents: other elements, nested boxes   *)
(* and the vertical labels inside nested boxes leave it alone.             *)
C3_ColumnCount ==
    \A b \in DOMAIN boxes :
        boxes[b].ncol =
            1 + Cardinality({ k \in DOMAIN boxes[b].contents :
                                boxes[b].contents[k].type = "VerticalLabel" })

C3_Witness ==
    \E b \in DOMAIN boxes : \E j, k \in DOMAIN boxes[b].contents :
        /\ boxes[b].contents[j].type = "VerticalLabel"
        /\ boxes[b].contents[k].type = "Box"
        /\ boxes[boxes[b].contents[k].id].ncol = 2
        /\ boxes[b].ncol = 2

VerticalLabels(b) ==
    SelectSeq(boxes[b].contents, LAMBDA e : e.type = "VerticalLabel")

\* the markup of a vertical label begins with the rule above the row
LeadingRule(s) == Head(s) \in { "\\hline% vl\n", "\\hhline{" }

(* C4: in every box the i-th vertical label has ordinal i, and ncol is one *)
(* more than their number k; once the tree is read, the markup of a        *)
(* vertical label begins with the leading rule exactly when its ordinal is *)
(* 1, ends with the row break exactly when its ordinal is k, and ends with *)
(* the separator & otherwise.                                              *)
C4_VerticalLabelOrdinals ==
    \A b \in DOMAIN boxes :
        LET vls == VerticalLabels(b)
            k   == Len(vls)
        IN
        /\ \A i \in 1..k : vls[i].ordinal = i
        /\ k >= 1 => boxes[b].ncol = k + 1
        /\ Rendering =>
             \A i \in 1..k :
                LET s == to_string(vls[i]) IN
                /\ LeadingRule(s) <=> i = 1
                /\ s[Len(s)] = "\\\\\n" <=> i = k
                /\ s[Len(s)] = "&\n" <=> i # k

C4_Witness ==
    /\ Rendering
    /\ \E b \in DOMAIN boxes :
         /\ Len(VerticalLabels(b)) = 3
         /\ to_string(VerticalLabels(b)[2])[1] = "\\multicolumn{1}{"

\* the first close of a block that is not open, 0 when there is none
StrayClose(d) ==
    IF \E n \in 1..Len(d) : IsStrayClose(d, n)
    THEN CHOOSE n \in 1..Len(d) :
            IsStrayClose(d, n) /\ \A m \in 1..(n - 1) : ~IsStrayClose(d, m)
    ELSE 0

(* C10: a `}` read while no block is open ends the reading of the file     *)
(* without a syntax error: the root is returned with the elements of the   *)
(* lines before it, the lines after it are never read, whatever they are,  *)
(* and the run goes on to print the file.                                  *)
C10_StrayCloseEndsFile ==
    pc \in { "process_box", "print", "exit" } =>
        LET d == Describe(File)
            n == StrayClose(d)
        IN
        (n > 0 /\ \A i \in 1..(n - 1) : ~d[i].unrecognized) =>
            /\ cursor <= n
            /\ pc # "exit"
            /\ pc = "process_box" => cursor < n
            /\ pc = "print" =>
                 /\ cursor = n
                 /\ stack = << >>
                 /\ exit_msg = << >>
                 /\ TreeOfLines(d, n - 1)
                 /\ ENABLED PrintFile

C10_Witness ==
    /\ pc = "print"
    /\ StrayClose(Describe(File)) = 2
    /\ Len(File) = 3
    /\ Unrecognized(File[3])
    /\ boxes[Root].contents # << >>

(* ------------------------------------------------ the shorthand, spelt out *)

\* the annotations of a line, each followed by white space
Annotations(line) ==
    LET a == SelectSeq(line, LAMBDA w : RE_COLOR(w) # "" \/ RE_ADORN_LR(w) # "")
    IN  [i \in 1..(2 * Len(a)) |-> IF i % 2 = 1 THEN a[(i + 1) \div 2] ELSE " "]

\* `hbox <text>` as the three lines `hbox {`, `hl <text>`, `}`, the line's
\* annotations on both the box and the label
Longhand(line) ==
    << << "hbox", " " >> \o Annotations(line) \o << "{" >>,
       << "hl", " " >> \o Annotations(line)
                       \o RE_HOR_BOX_LABEL(Stripped(line)).group,
       << "}" >> >>

RECURSIVE Desugar(_)
Desugar(f) ==
    IF f = << >> THEN << >>
    ELSE (IF IsShorthand(Head(f)) THEN Longhand(Head(f)) ELSE << Head(f) >>)
         \o Desugar(Tail(f))

\* the tree below the box b as a value: the objects without their identities
RECURSIVE Subtree(_)
Subtree(b) ==
    [cls      |-> boxes[b].cls,
     color    |-> boxes[b].color,
     ncol     |-> boxes[b].ncol,
     separate |-> boxes[b].separate,
     contents |->
        [k \in DOMAIN boxes[b].contents |->
            LET e == boxes[b].contents[k] IN
            IF e.type = "Box" THEN [type |-> "Box", box |-> Subtree(e.id)]
            ELSE IF e.type = "NewLine" THEN [type |-> "NewLine"]
            ELSE IF e.type = "HorizontalSpace"
            THEN [type |-> e.type, text |-> e.space]
            ELSE IF e.type = "HorizontalLabel"
            THEN [type |-> e.type, text |-> e.label, color |-> e.color]
            ELSE [type |-> e.type, text |-> e.label, color |-> e.color,
                  ordinal |-> e.ordinal]]]

\* two files: lines with the shorthand, and the same lines with it spelt out
InitSugar ==
    InitWith({ << f, Desugar(f) >> : f \in Streams(SugarLines, MaxSugarLines) })

SpecSugar == InitSugar /\ [][Next]_vars

(* C5: a file and the same file with every `hbox <text>` line replaced by  *)
(* `hbox {`, `hl <text>`, `}` give the same tree of elements (classes,     *)
(* texts, colors, ncol) and the same markup, in any container and with     *)
(* either setting of the separate-boxes flag.                              *)
C5_ShorthandIsSugar ==
    (pc = "done" /\ Len(files) = 2 /\ files[2] = Desugar(files[1])) =>
        /\ Subtree(roots[1]) = Subtree(roots[2])
        /\ stdout[3] = stdout[4]

C5_Witness ==
    /\ pc = "done"
    /\ Len(files) = 2
    /\ files[1] = << L_vbox, L_shortred >>
    /\ files[2] = << L_vbox, Longhand(L_shortred)[1], Longhand(L_shortred)[2],
                     L_close >>
    /\ args_separate
    /\ stdout[3] = stdout[4]

\* the pieces t occur in s, one after the other
Occurs(t, s) ==
    \E p \in 0..(Len(s) - Len(t)) : SubSeq(s, p + 1, p + Len(t)) = t

IsLabel(e) == e.type \in { "HorizontalLabel", "VerticalLabel" }

(* C6: a label without a color of its own, in a box with the color C, has  *)
(* the fill color C in the markup of its cell; a label with its own color  *)
(* D has D, whatever the color of the box.                                 *)
C6_ColorInheritance ==
    Rendering =>
        \A b \in BoxesOf(fileno) : \A k \in DOMAIN boxes[b].contents :
            LET e == boxes[b].contents[k] IN
            IsLabel(e) =>
                /\ (~Truthy(e.color) /\ Truthy(boxes[b].color)) =>
                      Occurs(<< "\\cellcolor{", boxes[b].color, "}" >>,
                             to_string(e))
                /\ Truthy(e.color) =>
                      Occurs(<< "\\cellcolor{", e.color, "}" >>, to_string(e))

\* the columns of the table of the box b: the l's of its column specification
Columns(b) ==
    Len(SelectSeq(compose_repeat(b, "l", "", "", ""), LAMBDA w : w = "l"))

(* C8: the column span that a horizontal label or space writes is the      *)
(* number of columns of the table of its box, which is at least 1, also in *)
(* a box without vertical labels.                                          *)
C8_FullWidthSpan ==
    Rendering =>
        \A b \in BoxesOf(fileno) : \A k \in DOMAIN boxes[b].contents :
            LET e == boxes[b].contents[k] IN
            e.type \in { "HorizontalLabel", "HorizontalSpace" } =>
                /\ Columns(b) >= 1
                /\ to_string(e)[1] = "\\multicolumn{"
                /\ to_string(e)[2] = ToString(Columns(b))

\* what a step that reads a line adds to the contents of the current box
Added ==
    SubSeq(boxes'[Current].contents, Len(boxes[Current].contents) + 1,
           Len(boxes'[Current].contents))

\* the line about to be read is an `hl`, and the two read before it into the
\* same box are an `hl` and then the line File[cursor]
LabelBlankLabel ==
    /\ AtLine
    /\ cursor >= 2
    /\ IsLeaf(File[cursor - 1], "hl")
    /\ IsLeaf(Line, "hl")

\* the last three children of the current box are two label rows with a row
\* break between them
TwoRows ==
    LET cs == boxes[Current].contents
        n  == Len(cs)
    IN
    /\ n >= 3
    /\ cs[n - 2].type = "HorizontalLabel"
    /\ cs[n - 1] = NewLine
    /\ cs[n].type = "HorizontalLabel"
    /\ contents_to_string(SubSeq(cs, n - 2, n)) =
         to_string(cs[n - 2]) \o << "\\\\\n" >> \o to_string(cs[n])
    /\ \A j \in { n - 2, n } :
         LET t == to_string(cs[j]) IN
         Head(t) = "\\multicolumn{" /\ t[Len(t)] = "} \\\\\n"

(* C7, as claimed: every line that is blank once trailing white space and  *)
(* a # comment are stripped (empty, white space only, or only a comment)   *)
(* adds exactly one NewLine to the current box; a blank line between two   *)
(* `hl` lines gives two label rows with a row break between them.          *)
C7_AsClaimed ==
    /\ [][(AtLine /\ IsBlank(Line)) => Added = << NewLine >>]_vars
    /\ [][(LabelBlankLabel /\ IsBlank(File[cursor])) => TwoRows']_vars

(* C7, amended: every empty or white-space-only line adds exactly one      *)
(* NewLine to the current box, and a line holding only a comment adds      *)
(* nothing; an empty or white-space-only line between two `hl` lines gives *)
(* two label rows with a row break between them.                           *)
C7_BlankLineIsNewLine ==
    /\ [][(AtLine /\ IsEmpty(Line)) => Added = << NewLine >>]_vars
    /\ [][(AtLine /\ IsCommentOnly(Line)) =>
            (boxes' = boxes /\ stack' = stack /\ pc' = pc)]_vars
    /\ [][(LabelBlankLabel /\ IsEmpty(File[cursor])) => TwoRows']_vars

C7_Witness ==
    /\ pc = "process_box"
    /\ cursor = 3
    /\ File = << L_hl, L_white, L_hl >>
    /\ TwoRows

(* ------------------------------------------------- places in the markup *)

RotateOpen == "\\rotatebox[origin=rt]{90}{\n"

\* piece i of s closes a rotation wrapper: the "}\n" after the end of a table
IsRotateClose(s, i) ==
    i > 1 /\ s[i] = "}\n" /\ s[i - 1] = "\\end{tabular}}\\hspace{1em}"

\* the rotation wrappers open after the first p pieces of s
Rotations(s, p) ==
    Cardinality({ i \in 1..p : s[i] = RotateOpen })
    - Cardinality({ i \in 1..p : IsRotateClose(s, i) })

\* the boxes from b up to its root that are VerticalBoxes
RECURSIVE VerticalAncestors(_)
VerticalAncestors(b) ==
    (IF boxes[b].cls = "VerticalBox" THEN 1 ELSE 0)
    + (IF boxes[b].container = 0 THEN 0
       ELSE VerticalAncestors(boxes[b].container))

IsVerticalBox(e) == e.type = "Box" /\ boxes[e.id].cls = "VerticalBox"

\* the pieces of the root's markup before the markup of the box b, and
\* before that of the k-th element of b
RECURSIVE BoxOffset(_)
ElementOffset(b, k) ==
    BoxOffset(b)
    + (IF boxes[b].cls = "VerticalBox" THEN 1 ELSE 0)
    + Len(Box_head(b))
    + Len(contents_to_string(SubSeq(boxes[b].contents, 1, k - 1)))
BoxOffset(b) ==
    IF boxes[b].container = 0 THEN 0
    ELSE LET c == boxes[b].container IN
         ElementOffset(c, CHOOSE k \in DOMAIN boxes[c].contents :
                                boxes[c].contents[k] = BoxRef(b))

(* C9: in the markup of a file, the markup of every element lies inside as *)
(* many nested rotation wrappers as the element has VerticalBox ancestors, *)
(* itself included when it is a VerticalBox, and the markup has one        *)
(* wrapper per VerticalBox of the tree.                                    *)
C9_RotationNesting ==
    Rendering =>
        LET s == to_string(BoxRef(Root)) IN
        /\ Cardinality({ i \in 1..Len(s) : s[i] = RotateOpen }) =
             Cardinality({ b \in BoxesOf(fileno) : boxes[b].cls = "VerticalBox" })
        /\ Rotations(s, Len(s)) = 0
        /\ \A b \in BoxesOf(fileno) : \A k \in DOMAIN boxes[b].contents :
             LET e == boxes[b].contents[k]
                 p == ElementOffset(b, k)
             IN
             /\ SubSeq(s, p + 1, p + Len(to_string(e))) = to_string(e)
             /\ Rotations(s, p + 1) =
                  VerticalAncestors(b) + (IF IsVerticalBox(e) THEN 1 ELSE 0)

C9_Witness ==
    /\ Rendering
    /\ \E b \in BoxesOf(fileno) : \E k \in DOMAIN boxes[b].contents :
         /\ boxes[b].contents[k].type = "HorizontalLabel"
         /\ VerticalAncestors(b) = 2
         /\ Rotations(to_string(BoxRef(Root)), ElementOffset(b, k) + 1) = 2
====
